---- MODULE Spec2Model ----
(***************************************************************************)
(* Model of packages/driver/src/util/serialization.ts: the serializability *)
(* oracle isSerializableInCurrentBrowser, the prototype-chain flattener    *)
(* convertObjectToSerializableLiteral, the shallow filter                  *)
(* omitUnserializablePropertiesFromObj and the recursive entry point       *)
(* preprocessErrorsForSerialization.                                       *)
(*                                                                         *)
(* Values are records of one shape.  A composite object is its prototype   *)
(* chain: chain[1] holds the own properties of the object itself, chain[2] *)
(* those of Object.getPrototypeOf(obj), and so on until the chain ends.    *)
(* A property is absent, a data property, or an accessor whose getter has  *)
(* an outcome for its first and for its later invocations (a value or an   *)
(* exception).  Property names are ordinary names; the function-valued     *)
(* members of Object.prototype, which the oracle rejects, are not listed.  *)
(***************************************************************************)
EXTENDS Naturals, Sequences

VARIABLES
    firefox,                \* Cypress.isBrowser('firefox')
    windowStructuredClone,  \* window?.structuredClone: "native" or "undefined"
    nativeClonesErrors,     \* whether the host's native primitive clones native Errors
    pc,                     \* "idle", "done" (a call returned or threw), "reapplied"
    op,                     \* the exported operation that was called
    arg,                    \* its argument
    res,                    \* its outcome: [status, thrown, value]
    prev,                   \* the outcome of the call before a re-application
    calls                   \* getter invocations of the flattener, per <<link, name>>

vars == <<firefox, windowStructuredClone, nativeClonesErrors, pc, op, arg, res, prev, calls>>

----------------------------------------------------------------------------
(* Bounds of the inputs a caller passes *)

MaxChain == 2       \* links of a prototype chain, the object itself included
MaxLen == 3         \* elements of a top-level sequence

NameOrder == <<"x", "y">>   \* property names, in Object.getOwnPropertyNames order
NameSet == {"x", "y"}

----------------------------------------------------------------------------
(* The sentinel and the exceptions that can be in flight *)

UNSERIALIZABLE == "__cypress_unserializable_value"
DataCloneError == "DataCloneError"   \* thrown by the clone primitive
GetterError == "GetterError"         \* thrown by user code in a property getter
THROW == "<throws>"                  \* outcome of a getter invocation that throws

(* The values a property or a mapping entry can hold, by name:              *)
(*   one, zero     serializable primitives (zero is falsy)                  *)
(*   sym           a symbol: a primitive the clone primitive rejects        *)
(*   fn            a function                                               *)
(*   err           a native Error                                           *)
(*   nested_ok     an object all of whose members can be cloned             *)
(*   nested_bad    an object holding a function one level down              *)
EntryValues == {"one", "zero", "sym", "fn", "err", "nested_ok", "nested_bad"}
ScalarIds == {"one", "zero", "sym"}
PropValues == {"one", "sym"}

IsError(v) == v = "err"

----------------------------------------------------------------------------
(* Lines 9-29: the oracle *)

StructuredCloneRef ==
    IF windowStructuredClone # "undefined" THEN windowStructuredClone ELSE "ponyfill"

(* structuredCloneRef(value): "none" when the clone succeeds, else the      *)
(* exception.  Both primitives reject symbols, functions and any object     *)
(* that holds one; the ponyfill clones native Errors (lines 7 and 18-20),   *)
(* a native primitive does or does not, depending on the host.              *)
StructuredClone(v) ==
    IF v \in {"sym", "fn", "nested_bad"} THEN DataCloneError
    ELSE IF IsError(v) /\ StructuredCloneRef = "native" /\ ~nativeClonesErrors
         THEN DataCloneError
    ELSE "none"

(* Variant: the override applied whichever primitive is active (line 16     *)
(* without its last conjunct).                                              *)
IsSerializableQuirkOnNative(v) ==
    IF StructuredClone(v) # "none" THEN FALSE
    ELSE IF firefox /\ IsError(v) THEN FALSE
    ELSE TRUE

isSerializableInCurrentBrowser(v) ==
    IF StructuredClone(v) # "none" THEN FALSE          \* catch (e) { return false }
    ELSE IF firefox /\ IsError(v) /\ StructuredCloneRef # windowStructuredClone
         THEN FALSE
    ELSE TRUE

----------------------------------------------------------------------------
(* Values *)

Absent == [kind |-> "absent", val |-> "undefined", again |-> "undefined"]
Data(v) == [kind |-> "data", val |-> v, again |-> v]
Getter(first, later) == [kind |-> "getter", val |-> first, again |-> later]

Props ==
    {Absent} \cup {Data(v) : v \in PropValues}
             \cup {Getter(v, v) : v \in PropValues}
             \cup {Getter(THROW, THROW), Getter("one", THROW)}

Links == [NameSet -> Props]

NoValue == [kind |-> "none", id |-> "", callable |-> FALSE, chain |-> <<>>, elems |-> <<>>]
Scalar(i) == [kind |-> "scalar", id |-> i, callable |-> FALSE, chain |-> <<>>, elems |-> <<>>]
Object(c, f) == [kind |-> "object", id |-> "", callable |-> f, chain |-> c, elems |-> <<>>]
Array(es) == [kind |-> "array", id |-> "", callable |-> FALSE, chain |-> <<>>, elems |-> es]

Scalars == {Scalar(i) : i \in ScalarIds}

(* Elements of a sequence: the scalars, objects with at most the own        *)
(* property x, and short sequences nested one level down.                   *)
ElementObjects ==
    {Object(<<[n \in NameSet |-> IF n = "x" THEN p ELSE Absent]>>, FALSE) : p \in Props}
InnerArrays == {Array(<<>>)} \cup {Array(<<s>>) : s \in Scalars}
Elements == Scalars \cup ElementObjects \cup InnerArrays

Mappings == UNION {[S -> EntryValues] : S \in SUBSET NameSet}

Return(v) == [status |-> "return", thrown |-> "none", value |-> v]
Throw(e) == [status |-> "throw", thrown |-> e, value |-> NoValue]
NoResult == [status |-> "none", thrown |-> "none", value |-> NoValue]

----------------------------------------------------------------------------
(* Lines 40-63: the flattener *)

(* One read of a property: a data property yields its value; a getter is    *)
(* invoked and yields the outcome of its first or of a later invocation.    *)
ReadProp(p, invoked) ==
    IF p.kind = "getter" /\ invoked > 0 THEN p.again ELSE p.val

CountRead(c, p, i, n) ==
    IF p.kind = "getter" THEN [c EXCEPT ![<<i, n>>] = @ + 1] ELSE c

Includes(seq, n) == \E k \in 1..Len(seq) : seq[k] = n

(* obj[key]: normal lookup finds the nearest link that has the name *)
NearestLink(chain, n) ==
    CHOOSE i \in 1..Len(chain) :
        /\ chain[i][n].kind # "absent"
        /\ \A j \in 1..(i - 1) : chain[j][n].kind = "absent"

(* Line 48: currentObjectRef[prop], read on the link being walked *)
TestedValue(chain, i, n, c) ==
    [link |-> i, out |-> ReadProp(chain[i][n], c[<<i, n>>])]

(* Lines 47-51 for one own property name of link i.  st = [allProps, calls, *)
(* thrown]; an exception of a getter leaves the walk at once.               *)
VisitProp(st, chain, i, n) ==
    IF st.thrown # "none" \/ chain[i][n].kind = "absent" \/ Includes(st.allProps, n)
    THEN st
    ELSE LET t == TestedValue(chain, i, n, st.calls)
             c2 == CountRead(st.calls, chain[t.link][n], t.link, n)
         IN  IF t.out = THROW
             THEN [st EXCEPT !.calls = c2, !.thrown = GetterError]
             ELSE IF isSerializableInCurrentBrowser(t.out)
             THEN [st EXCEPT !.calls = c2, !.allProps = Append(@, n)]
             ELSE [st EXCEPT !.calls = c2]

(* Lines 44-54: the k-th step visits name ((k-1) % names)+1 of link         *)
(* ((k-1) \div names)+1, from the object itself up to the end of the chain. *)
RECURSIVE WalkFrom(_, _, _, _)
WalkFrom(st, chain, k, last) ==
    IF k > Len(chain) * Len(NameOrder) \/ k > last * Len(NameOrder) THEN st
    ELSE WalkFrom(VisitProp(st, chain, ((k - 1) \div Len(NameOrder)) + 1,
                            NameOrder[((k - 1) % Len(NameOrder)) + 1]),
                  chain, k + 1, last)

(* Variant: the walk that stops after the object's own properties *)
WalkOwnOnly(chain) ==
    WalkFrom([allProps |-> <<>>, calls |-> [q \in (1..Len(chain)) \X NameSet |-> 0],
              thrown |-> "none"], chain, 1, 1)

WalkChain(chain) ==
    WalkFrom([allProps |-> <<>>, calls |-> [q \in (1..Len(chain)) \X NameSet |-> 0],
              thrown |-> "none"], chain, 1, Len(chain))

(* Variant: line 59 reusing the value read for the test, with no new read *)
CopyTestedValue(b, chain, key) ==
    LET j == CHOOSE i \in 1..Len(chain) :
                 /\ chain[i][key].kind # "absent"
                 /\ isSerializableInCurrentBrowser(chain[i][key].val)
                 /\ \A h \in 1..(i - 1) :
                        chain[h][key].kind = "absent"
                        \/ ~isSerializableInCurrentBrowser(chain[h][key].val)
    IN  [b EXCEPT !.literal = [@ EXCEPT ![key] = Data(chain[j][key].val)]]

(* Line 59: objectAsLiteral[key] = obj[key] *)
CopyProp(b, chain, key) ==
    IF b.thrown # "none" THEN b
    ELSE LET j == NearestLink(chain, key)
             out == ReadProp(chain[j][key], b.calls[<<j, key>>])
             c2 == CountRead(b.calls, chain[j][key], j, key)
         IN  IF out = THROW
             THEN [b EXCEPT !.calls = c2, !.thrown = GetterError]
             ELSE [b EXCEPT !.calls = c2, !.literal = [@ EXCEPT ![key] = Data(out)]]

(* Lines 56-60 *)
RECURSIVE BuildFrom(_, _, _, _)
BuildFrom(b, chain, allProps, k) ==
    IF k > Len(allProps) THEN b
    ELSE BuildFrom(CopyProp(b, chain, allProps[k]), chain, allProps, k + 1)

(* [thrown, literal, calls]: the exception that left the function ("none"   *)
(* when it returned), the record it built and the getter invocations made.  *)
convertObjectToSerializableLiteral(chain) ==
    LET w == WalkChain(chain) IN
    IF w.thrown # "none"
    THEN [thrown |-> w.thrown, literal |-> [n \in NameSet |-> Absent], calls |-> w.calls]
    ELSE BuildFrom([thrown |-> "none", literal |-> [n \in NameSet |-> Absent],
                    calls |-> w.calls], chain, w.allProps, 1)

----------------------------------------------------------------------------
(* Lines 72-74: _.pickBy(objectToSanitize, isSerializableInCurrentBrowser) *)

(* Variant: a filter that keeps every key *)
PickAll(m) == m

omitUnserializablePropertiesFromObj(m) ==
    [k \in {n \in DOMAIN m : isSerializableInCurrentBrowser(m[n])} |-> m[k]]

----------------------------------------------------------------------------
(* Lines 99-123: the pipeline *)

Truthy(v) == ~(v.kind = "scalar" /\ v.id = "zero")

(* _.filter(array, predicate): the elements, in order, for which the        *)
(* predicate returns a truthy value; outcomes[k] is the predicate's outcome *)
(* on element k, and the first exception it throws leaves the filter.       *)
RECURSIVE FilterFrom(_, _, _, _)
FilterFrom(es, outcomes, k, kept) ==
    IF k > Len(es) THEN Return(Array(kept))
    ELSE IF outcomes[k].status = "throw" THEN outcomes[k]
    ELSE FilterFrom(es, outcomes, k + 1,
                    IF Truthy(outcomes[k].value) THEN Append(kept, es[k]) ELSE kept)

(* Variant: lines 107-116 without the try/catch *)
SanitizeObjectNoCatch(v) ==
    LET f == convertObjectToSerializableLiteral(v.chain) IN
    IF f.thrown # "none" THEN Throw(f.thrown)
    ELSE Return(Object(<<f.literal>>, FALSE))

(* Lines 107-116 *)
SanitizeObject(v) ==
    LET f == convertObjectToSerializableLiteral(v.chain) IN
    IF f.thrown # "none" THEN Throw(UNSERIALIZABLE)      \* catch (err)
    ELSE Return(Object(<<f.literal>>, FALSE))

(* Variant: lines 118-122 without the oracle test *)
SanitizeScalarUnchecked(v) == Return(v)

(* Lines 118-122 *)
SanitizeScalar(v) ==
    IF ~isSerializableInCurrentBrowser(v.id) THEN Throw(UNSERIALIZABLE) ELSE Return(v)

RECURSIVE preprocessErrorsForSerialization(_)
preprocessErrorsForSerialization(v) ==
    IF v.kind = "array"                                   \* _.isArray
    THEN FilterFrom(v.elems,
                    [k \in 1..Len(v.elems) |-> preprocessErrorsForSerialization(v.elems[k])],
                    1, <<>>)
    ELSE IF v.kind = "object"                             \* _.isObject, functions included
    THEN SanitizeObject(v)
    ELSE SanitizeScalar(v)

(* Getter invocations of the flattener when the argument is a composite *)
CallsOf(v) ==
    IF v.kind = "object" THEN convertObjectToSerializableLiteral(v.chain).calls ELSE <<>>

----------------------------------------------------------------------------
(* The caller: one operation at a time, from the idle state *)

Init ==
    /\ firefox \in BOOLEAN
    /\ windowStructuredClone \in {"native", "undefined"}
    /\ nativeClonesErrors \in BOOLEAN
    /\ windowStructuredClone = "undefined" => nativeClonesErrors   \* no native primitive to ask
    /\ pc = "idle"
    /\ op = "none"
    /\ arg = NoValue
    /\ res = NoResult
    /\ prev = NoResult
    /\ calls = <<>>

CallIsSerializable ==
    /\ pc = "idle"
    /\ \E v \in EntryValues :
        /\ arg' = v
        /\ res' = Return(isSerializableInCurrentBrowser(v))
    /\ pc' = "done"
    /\ op' = "isSerializable"
    /\ UNCHANGED <<firefox, windowStructuredClone, nativeClonesErrors, prev, calls>>

CallOmit ==
    /\ pc = "idle"
    /\ \E m \in Mappings :
        /\ arg' = m
        /\ res' = Return(omitUnserializablePropertiesFromObj(m))
    /\ pc' = "done"
    /\ op' = "omit"
    /\ UNCHANGED <<firefox, windowStructuredClone, nativeClonesErrors, prev, calls>>

Sanitize(v) ==
    /\ arg' = v
    /\ res' = preprocessErrorsForSerialization(v)
    /\ calls' = CallsOf(v)

CallPreprocess ==
    /\ pc = "idle"
    /\ \/ \E i \in ScalarIds : Sanitize(Scalar(i))
       \/ \E n \in 1..MaxChain : \E c \in [1..n -> Links] : \E f \in BOOLEAN :
              Sanitize(Object(c, f))
       \/ \E n \in 0..MaxLen : \E es \in [1..n -> Elements] : Sanitize(Array(es))
    /\ pc' = "done"
    /\ op' = "preprocess"
    /\ UNCHANGED <<firefox, windowStructuredClone, nativeClonesErrors, prev>>

(* The caller passes the record it got back through the pipeline again *)
Reapply ==
    /\ pc = "done"
    /\ op = "preprocess"
    /\ arg.kind = "object"
    /\ res.status = "return"
    /\ arg' = res.value
    /\ prev' = res
    /\ res' = preprocessErrorsForSerialization(res.value)
    /\ calls' = CallsOf(res.value)
    /\ pc' = "reapplied"
    /\ UNCHANGED <<firefox, windowStructuredClone, nativeClonesErrors, op>>

Finish ==
    /\ pc \in {"done", "reapplied"}
    /\ pc' = "idle"
    /\ op' = "none"
    /\ arg' = NoValue
    /\ res' = NoResult
    /\ prev' = NoResult
    /\ calls' = <<>>
    /\ UNCHANGED <<firefox, windowStructuredClone, nativeClonesErrors>>

Next == CallIsSerializable \/ CallOmit \/ CallPreprocess \/ Reapply \/ Finish

Spec == Init /\ [][Next]_vars

----------------------------------------------------------------------------
(* Vocabulary of the properties *)

(* What the specification calls a scalar: a primitive, a symbol, a function *)
SpecScalar(v) == v.kind = "scalar" \/ (v.kind = "object" /\ v.callable)

(* Whether the clone primitive accepts a top-level value of that kind *)
PrimitiveAccepts(v) == v.kind = "scalar" /\ StructuredClone(v.id) = "none"

PassOrSignal(v) == IF PrimitiveAccepts(v) THEN Return(v) ELSE Throw(UNSERIALIZABLE)

Present(chain, n) == \E i \in 1..Len(chain) : chain[i][n].kind # "absent"

SerializableScalar(v) == v \in ScalarIds /\ isSerializableInCurrentBrowser(v)

AllSerializableScalars(chain) ==
    \A i \in 1..Len(chain) : \A n \in NameSet :
        chain[i][n].kind # "absent" =>
            SerializableScalar(chain[i][n].val) /\ SerializableScalar(chain[i][n].again)

(* The record of every name found on the chain with the looked-up value *)
FullRecord(chain) ==
    Object(<<[n \in NameSet |->
                IF Present(chain, n)
                THEN Data(chain[NearestLink(chain, n)][n].again) ELSE Absent]>>, FALSE)

(* A name is accepted at the first link whose own value passes the oracle *)
AcceptedAt(chain, i, n) ==
    /\ chain[i][n].kind # "absent"
    /\ isSerializableInCurrentBrowser(chain[i][n].val)

ExpectedCalls(chain, i, n) ==
    (IF \E j \in 1..(i - 1) : AcceptedAt(chain, j, n) THEN 0 ELSE 1)
    + (IF (\E j \in 1..Len(chain) : AcceptedAt(chain, j, n)) /\ i = NearestLink(chain, n)
       THEN 1 ELSE 0)

Flattened == op = "preprocess" /\ arg.kind = "object" /\ res.status = "return"

----------------------------------------------------------------------------
(* C1, as stated: for every scalar in the specification's sense (functions  *)
(* included) the pipeline returns the value itself when the clone primitive *)
(* accepts it and raises UNSERIALIZABLE when it rejects it.                 *)
C1_SpecScalarPassOrSignal ==
    (op = "preprocess" /\ SpecScalar(arg)) => res = PassOrSignal(arg)

(* C1, amended: for every value that is neither an array nor object-like    *)
(* under _.isObject (a primitive or a symbol, not a function) the pipeline  *)
(* returns the value itself when the clone primitive accepts it and raises  *)
(* UNSERIALIZABLE when it rejects it.                                       *)
C1_ScalarPassOrSignal ==
    (op = "preprocess" /\ arg.kind = "scalar") => res = PassOrSignal(arg)

C1_Witness ==
    op = "preprocess" /\ arg = Scalar("sym") /\ res = Throw(UNSERIALIZABLE)

(* C2: a sequence of scalars comes back, without an exception, as the       *)
(* subsequence of its serializable elements in their original order.        *)
C2_UnserializableElementsDropped ==
    (op = "preprocess" /\ arg.kind = "array"
        /\ \A k \in 1..Len(arg.elems) : arg.elems[k].kind = "scalar")
    => res = Return(Array(SelectSeq(arg.elems,
                                    LAMBDA e : isSerializableInCurrentBrowser(e.id))))

(* C3: a sequence whose elements all sanitize without an exception comes    *)
(* back with the same length, element i being the sanitized element i.      *)
C3_ElementsSanitizedInPlace ==
    (op = "preprocess" /\ arg.kind = "array"
        /\ \A k \in 1..Len(arg.elems) :
               preprocessErrorsForSerialization(arg.elems[k]).status = "return")
    => res = Return(Array([k \in 1..Len(arg.elems) |->
                              preprocessErrorsForSerialization(arg.elems[k]).value]))

C5_Idempotent == pc = "reapplied" => res = prev

(* C6: the oracle returns (it never raises), and it returns false exactly   *)
(* when the clone primitive throws or when the host is firefox, the value   *)
(* is error-like and the ponyfill is the active primitive; so with the      *)
(* native primitive active it returns whatever the primitive decides.       *)
C6_OracleTruthTable ==
    op = "isSerializable" =>
        /\ res.status = "return"
        /\ res.value = FALSE <=>
              \/ StructuredClone(arg) # "none"
              \/ firefox /\ IsError(arg) /\ windowStructuredClone = "undefined"
        /\ windowStructuredClone = "native" =>
              (res.value <=> StructuredClone(arg) = "none")

C6_Witness ==
    /\ op = "isSerializable" /\ firefox /\ windowStructuredClone = "undefined"
    /\ arg = "err" /\ StructuredClone(arg) = "none" /\ res.value = FALSE

(* C7: the shallow filter returns the mapping restricted to the keys whose  *)
(* value the oracle accepts, every kept key with the value it had; a nested *)
(* value is kept or dropped whole.                                          *)
C7_OmitKeepsAcceptedKeys ==
    op = "omit" =>
        /\ res.status = "return"
        /\ DOMAIN res.value = {k \in DOMAIN arg : isSerializableInCurrentBrowser(arg[k])}
        /\ \A k \in DOMAIN res.value : res.value[k] = arg[k]

C7_Witness ==
    /\ op = "omit"
    /\ DOMAIN arg = {"x", "y"} /\ arg["x"] = "nested_ok" /\ arg["y"] = "nested_bad"
    /\ DOMAIN res.value = {"x"} /\ res.value["x"] = "nested_ok"

(* C8: whatever the input, an exception that leaves the pipeline is the     *)
(* UNSERIALIZABLE sentinel, never the exception of a getter or of the clone *)
(* primitive.                                                               *)
C8_OnlySentinelEscapes ==
    (op = "preprocess" /\ res.status = "throw") => res.thrown = UNSERIALIZABLE

C8_Witness ==
    /\ op = "preprocess" /\ arg.kind = "object"
    /\ \E n \in NameSet : arg.chain[1][n] = Getter(THROW, THROW)
    /\ res = Throw(UNSERIALIZABLE)

(* C9: every entry of the record the flattener returns holds a value the    *)
(* oracle accepts.                                                          *)
C9_EntriesPassOracle ==
    Flattened =>
        \A n \in NameSet :
            res.value.chain[1][n].kind # "absent" =>
                isSerializableInCurrentBrowser(res.value.chain[1][n].val)

(* C10, as stated: in one call of the flattener every getter on the chain   *)
(* is invoked exactly once.                                                 *)
C10_GettersInvokedOnce ==
    Flattened =>
        \A i \in 1..Len(arg.chain) : \A n \in NameSet :
            arg.chain[i][n].kind = "getter" => calls[<<i, n>>] = 1

(* C10, amended: in one call of the flattener that returns, a getter is     *)
(* invoked once for the oracle test on the link that owns it, unless its    *)
(* name was already accepted from a nearer link, and the getter that        *)
(* obj[name] resolves to is invoked once more for every accepted name when  *)
(* the record is built: the getter of an accepted property runs twice.      *)
C10_GettersInvokedPerRead ==
    Flattened =>
        \A i \in 1..Len(arg.chain) : \A n \in NameSet :
            arg.chain[i][n].kind = "getter" =>
                calls[<<i, n>>] = ExpectedCalls(arg.chain, i, n)

C10_Witness ==
    /\ Flattened /\ pc = "done"
    /\ arg.chain[1]["x"] = Getter("one", "one")
    /\ calls[<<1, "x">>] = 2
    /\ res.value.chain[1]["x"] = Data("one")

====
